---- MODULE Spec2Model ----
(***************************************************************************)
(* Model of create_ht__mito_reference_data.py: the driver that validates   *)
(* a comma-separated list of reference dataset names, loads every dataset  *)
(* into a table keyed by (locus, alleles), outer-joins the tables, replaces*)
(* the globals by the run metadata and writes the result.                  *)
(*                                                                         *)
(* Engine calls (hl.read_table, import_table, import_vcf, annotate,        *)
(* filter, join, write) are modelled at the call site: each one either     *)
(* returns its result or raises there.  Tables are sets of rows, so the    *)
(* multiplicity of equal rows is not represented.                          *)
(***************************************************************************)
EXTENDS Integers, Sequences, FiniteSets, TLC

\* ---------------------------------------------------------------- bounds
MaxArgLen == 3      \* tokens in the --dataset argument
MaxPos    == 3      \* positions on a contig are 1..MaxPos
MaxRows   == 2      \* rows in one source file
MaxTime   == 1      \* values of the clock read by datetime.now()

\* ------------------------------------------------------------- registry
contig_recoding == [c \in {"MT", "1"} |-> IF c = "MT" THEN "chrM" ELSE "chr1"]

CONFIG ==
  [d \in {"gnomad", "mitomap", "mitimpact", "hmtvar", "helix", "clinvar", "dbnsfp"} |->
     CASE d = "gnomad" ->
            [path |-> "gs://gcp-public-data--gnomad/release/3.1/ht/genomes/gnomad.genomes.v3.1.sites.chrM.ht",
             input_type |-> "ht", annotate |-> {}]
       [] d = "mitomap" ->
            [path |-> "gs://seqr-reference-data/GRCh38/MITOMAP/Mitomap Confirmed Mutations Feb. 04 2022.tsv",
             input_type |-> "tsv", annotate |-> {"locus", "alleles", "pathogenic"}]
       [] d = "mitimpact" ->
            [path |-> "gs://seqr-reference-data/GRCh38/MitImpact/MitImpact_db_3.0.7.txt",
             input_type |-> "tsv", annotate |-> {"locus", "alleles"}]
       [] d = "hmtvar" ->
            [path |-> "gs://seqr-reference-data/GRCh38/HmtVar/HmtVar Jan. 10 2022.json",
             input_type |-> "json", annotate |-> {"locus", "alleles"}]
       [] d = "helix" ->
            [path |-> "gs://seqr-reference-data/GRCh38/Hilex/HelixMTdb_20200327.tsv",
             input_type |-> "tsv", annotate |-> {"locus", "alleles"}]
       [] d = "clinvar" ->
            [path |-> "gs://seqr-reference-data/GRCh38/clinvar/clinvar.GRCh38.2022-01-10.vcf.gz",
             input_type |-> "vcf", annotate |-> {"ALLELEID", "CLNSIG", "CLNREVSTAT"}]
       [] d = "dbnsfp" ->
            [path |-> "gs://seqr-reference-data/GRCh38/all_reference_data/v2/combined_reference_data_grch38-2.0.4.ht",
             input_type |-> "ht", annotate |-> {}]]

\* ------------------------------------------------------ input universes
\* The --dataset argument is a string; it is modelled as a sequence of
\* tokens, each a comma or a comma-free non-empty fragment.
ArgTokens == {",", "gnomad", "mitomap", "hmtvar", "clinvar", "bogus"}

RECURSIVE SeqsUpTo(_, _)
SeqsUpTo(S, n) ==
  IF n = 0 THEN {<<>>}
  ELSE LET shorter == SeqsUpTo(S, n - 1)
       IN  shorter \cup {Append(s, x) : s \in {t \in shorter : Len(t) = n - 1}, x \in S}

ArgStrings == SeqsUpTo(ArgTokens, MaxArgLen)

Contigs   == {"chrM", "chr1"}
Alleles   == {<<"A", "G">>}
Positions == 1..MaxPos
NULL      == "NULL"
Value     == "v"

SmallSubsets(S) == {T \in SUBSET S : Cardinality(T) <= MaxRows}

EmptyGlobals == <<>>
SourceGlobals == {EmptyGlobals, [version |-> "3.1"]}

\* rows of a prebuilt .ht table: already typed locus and alleles
HtRows  == [locus : [contig : Contigs, position : Positions], alleles : Alleles, val : {Value}]
\* rows of a delimited text file: the position is text that may not denote
\* a position of the contig (0 stands for such a text)
TsvRows == [start : 0..MaxPos, alleles : Alleles, val : {Value}]
\* rows of a VCF: contig names as spelled in the file
VcfRows == [contig : DOMAIN contig_recoding, position : Positions, alleles : Alleles, val : {Value}]
\* parsed JSON arrays
JsonArrays == {<<>>, <<[nt_start |-> 1]>>}

\* ------------------------------------------------------- pure functions
RECURSIVE Concat(_)
Concat(frags) == IF frags = <<>> THEN "" ELSE Head(frags) \o Concat(Tail(frags))

\* split as str.split() without a separator would do it: empty segments
\* are dropped, so the empty string gives no segment
RECURSIVE split_skip_empty(_)
split_skip_empty(s) ==
  IF s = <<>> THEN <<>>
  ELSE IF Head(s) = "," THEN split_skip_empty(Tail(s))
  ELSE LET n == CHOOSE n \in 1..Len(s) :
                  /\ \A j \in 1..n : s[j] # ","
                  /\ (n = Len(s) \/ s[n + 1] = ",")
       IN  <<Concat(SubSeq(s, 1, n))>> \o split_skip_empty(SubSeq(s, n + 1, Len(s)))

\* str.split(','): the segments between commas, empty ones included; a
\* string without a comma (the empty string too) gives one segment.
RECURSIVE split(_)
split(s) ==
  IF \A k \in 1..Len(s) : s[k] # ","
  THEN <<Concat(s)>>
  ELSE LET k == CHOOSE k \in 1..Len(s) : s[k] = "," /\ \A j \in 1..(k - 1) : s[j] # ","
       IN  <<Concat(SubSeq(s, 1, k - 1))>> \o split(SubSeq(s, k + 1, Len(s)))

Range(q) == {q[k] : k \in 1..Len(q)}

\* [d for d in datasets if d not in CONFIG.keys()]
not_supported_dataset(ds) == SelectSeq(ds, LAMBDA d : d \notin DOMAIN CONFIG)

\* import_vcf(..., contig_recoding=contig_recoding).rows()
import_vcf(rows) ==
  {[locus |-> [contig |-> contig_recoding[r.contig], position |-> r.position],
    alleles |-> r.alleles, val |-> r.val] : r \in rows}

\* hl.locus('chrM', pos) raises when pos is not a position of the contig
annotate_fails(dataset, rows) ==
  /\ "locus" \in CONFIG[dataset].annotate
  /\ \E r \in rows : r.start \notin Positions

\* ht.annotate(**{field: func(ht) ...}): the descriptors that derive a locus
\* all build it on chrM from the parsed position
annotate(dataset, rows) ==
  IF "locus" \in CONFIG[dataset].annotate
  THEN {[locus |-> [contig |-> "chrM", position |-> r.start],
         alleles |-> r.alleles, val |-> r.val] : r \in rows}
  ELSE rows

\* the filter left out
filter_none(rows) == rows

\* ht.filter(ht.locus.contig == 'chrM')
filter_chrM(rows) == {r \in rows : r.locus.contig = "chrM"}

\* annotate(dataset=struct(select...)), key_by('locus', 'alleles'), select(dataset)
key_by_select(dataset, globals, rows) ==
  [fields  |-> <<dataset>>,
   globals |-> globals,
   rows    |-> {[locus |-> r.locus, alleles |-> r.alleles, vals |-> <<r.val>>] : r \in rows}]

\* one iteration's lines 106-112
annotated_table(dataset, globals, rows) ==
  key_by_select(dataset, globals, filter_chrM(annotate(dataset, rows)))

Key(r) == <<r.locus, r.alleles>>
Keys(t) == {Key(r) : r \in t.rows}
Nulls(n) == [j \in 1..n |-> NULL]

\* the engine renames a right-hand field whose name the left side has
RECURSIVE Unique(_, _)
Unique(name, taken) == IF name \in taken THEN Unique(name \o "_1", taken) ELSE name

\* join(ht, 'inner'): only the keys both sides have
inner_join(left, right) ==
  [fields  |-> left.fields \o [j \in 1..Len(right.fields) |->
                                 Unique(right.fields[j], Range(left.fields))],
   globals |-> left.globals @@ right.globals,
   rows    |-> {[locus |-> p[1].locus, alleles |-> p[1].alleles,
                 vals |-> p[1].vals \o p[2].vals] :
                   p \in {q \in left.rows \X right.rows : Key(q[1]) = Key(q[2])}}]

\* join(ht, 'left'): the keys of the left side only
left_join(left, right) ==
  [fields  |-> left.fields \o [j \in 1..Len(right.fields) |->
                                 Unique(right.fields[j], Range(left.fields))],
   globals |-> left.globals @@ right.globals,
   rows    |-> {[locus |-> p[1].locus, alleles |-> p[1].alleles,
                 vals |-> p[1].vals \o p[2].vals] :
                   p \in {q \in left.rows \X right.rows : Key(q[1]) = Key(q[2])}}
               \cup {[locus |-> l.locus, alleles |-> l.alleles,
                      vals |-> l.vals \o Nulls(Len(right.fields))] :
                        l \in {m \in left.rows : \A r \in right.rows : Key(r) # Key(m)}}]

\* joined_ht.join(ht, 'outer')
outer_join(left, right) ==
  LET nl == Len(left.fields)
      nr == Len(right.fields)
      both  == {p \in left.rows \X right.rows : Key(p[1]) = Key(p[2])}
      lonly == {l \in left.rows : \A r \in right.rows : Key(r) # Key(l)}
      ronly == {r \in right.rows : \A l \in left.rows : Key(l) # Key(r)}
  IN  [fields  |-> left.fields \o [j \in 1..nr |-> Unique(right.fields[j], Range(left.fields))],
       globals |-> left.globals @@ right.globals,
       rows    |-> {[locus |-> p[1].locus, alleles |-> p[1].alleles,
                     vals |-> p[1].vals \o p[2].vals] : p \in both}
                   \cup {[locus |-> l.locus, alleles |-> l.alleles,
                          vals |-> l.vals \o Nulls(nr)] : l \in lonly}
                   \cup {[locus |-> r.locus, alleles |-> r.alleles,
                          vals |-> Nulls(nl) \o r.vals] : r \in ronly}]

\* functools.reduce(f, hts) without initial value: hts[1] is the accumulator
RECURSIVE reduce_from(_, _, _)
reduce_from(acc, tables, k) ==
  IF k > Len(tables) THEN acc
  ELSE reduce_from(outer_join(acc, tables[k]), tables, k + 1)

reduce(tables) == reduce_from(tables[1], tables, 2)

\* {k: v['path'] for k, v in CONFIG.items() if k in datasets}
included_dataset(ds) ==
  [k \in {c \in DOMAIN CONFIG : c \in Range(ds)} |-> CONFIG[k].path]

\* annotate_globals in place of select_globals: the old globals stay
annotate_globals(t, date, dsmap) ==
  [t EXCEPT !.globals = [date |-> date, datasets |-> dsmap] @@ t.globals]

\* select_globals(date=..., datasets=...): the new globals replace the old
select_globals(t, date, dsmap) ==
  [t EXCEPT !.globals = [date |-> date, datasets |-> dsmap]]

\* the write called with overwrite=True whatever the flag
write_refused_never(exists, overwrite) == FALSE

\* Table.write(path, overwrite): refuses an existing path unless overwrite
write_refused(exists, overwrite) == exists /\ ~overwrite

\* argparse action='store_true': False unless the flag is given
store_true(flags, flag) == flag \in flags

\* ---------------------------------------------------------------- state
VARIABLES
  argv,        \* the command line: [dataset, flags]
  args,        \* the parsed arguments
  pc,          \* position of the run
  datasets,    \* run's list of requested names
  i,           \* load_hts: index of the dataset the loop is at
  hts,         \* load_hts: tables loaded so far
  ht,          \* load_hts: rows of the table as fetched from the source
  data,        \* load_hts: the parsed JSON array
  joined_ht,   \* the joined table
  reads,       \* source paths opened so far
  tmpfiles,    \* temporary files that exist
  output,      \* the artifact at the output path
  nwrites,     \* completed writes to the output path
  err,         \* the exception that ended the run
  logged       \* names reported by logger.error

vars == <<argv, args, pc, datasets, i, hts, ht, data, joined_ht, reads, tmpfiles,
          output, nwrites, err, logged>>

OutputPath == "combined.ht"
NoTable  == [fields |-> <<>>, globals |-> EmptyGlobals, rows |-> {}]
\* an artifact left at the output path by an earlier run
OldTable == [fields |-> <<"dbnsfp">>,
             globals |-> [date |-> 0, datasets |-> included_dataset(<<"dbnsfp">>)],
             rows |-> {}]
NoArgs   == [dataset |-> <<>>, output_path |-> "", force_write |-> FALSE]

Init ==
  /\ argv \in [dataset : ArgStrings, flags : SUBSET {"--force-write"}]
  /\ args = NoArgs
  /\ pc = "main"
  /\ datasets = <<>>
  /\ i = 1
  /\ hts = <<>>
  /\ ht = {}
  /\ data = <<>>
  /\ joined_ht = NoTable
  /\ reads = {}
  /\ tmpfiles = {}
  /\ output \in {[exists |-> FALSE, table |-> NoTable], [exists |-> TRUE, table |-> OldTable]}
  /\ nwrites = 0
  /\ err = "none"
  /\ logged = <<>>

\* an exception propagates out of run: nothing catches it
Raise(kind) == pc' = "error" /\ err' = kind

\* __main__: parse the command line
main ==
  /\ pc = "main"
  /\ args' = [dataset |-> argv.dataset, output_path |-> OutputPath,
              force_write |-> store_true(argv.flags, "--force-write")]
  /\ pc' = "init"
  /\ UNCHANGED <<argv, datasets, i, hts, ht, data, joined_ht, reads, tmpfiles,
                 output, nwrites, err, logged>>

\* run: hl.init(...)
run_init ==
  /\ pc = "init"
  /\ \E ok \in BOOLEAN :
       IF ok THEN pc' = "validate" /\ err' = err ELSE Raise("InitError")
  /\ UNCHANGED <<argv, args, datasets, i, hts, ht, data, joined_ht, reads, tmpfiles,
                 output, nwrites, logged>>

\* the validation returning only when no requested name is supported
run_validate_all ==
  /\ pc = "validate"
  /\ datasets' = split(args.dataset)
  /\ IF Len(not_supported_dataset(datasets')) = Len(datasets')
     THEN logged' = not_supported_dataset(datasets') /\ pc' = "returned"
     ELSE logged' = logged /\ pc' = "load"
  /\ UNCHANGED <<argv, args, i, hts, ht, data, joined_ht, reads, tmpfiles,
                 output, nwrites, err>>

\* run: split the argument, report and return on unsupported names
run_validate ==
  /\ pc = "validate"
  /\ datasets' = split(args.dataset)
  /\ IF Len(not_supported_dataset(datasets')) > 0
     THEN logged' = not_supported_dataset(datasets') /\ pc' = "returned"
     ELSE logged' = logged /\ pc' = "load"
  /\ UNCHANGED <<argv, args, i, hts, ht, data, joined_ht, reads, tmpfiles,
                 output, nwrites, err>>

AtDataset(type) ==
  /\ pc = "load"
  /\ i <= Len(datasets)
  /\ datasets[i] \in DOMAIN CONFIG
  /\ CONFIG[datasets[i]].input_type = type

\* an iteration that skips the dataset whose derivation fails
finish_iteration_skip(dataset, globals, rows) ==
  IF annotate_fails(dataset, rows)
  THEN i' = i + 1 /\ UNCHANGED <<hts, pc, err>>
  ELSE /\ hts' = Append(hts, annotated_table(dataset, globals, rows))
       /\ i' = i + 1
       /\ UNCHANGED <<pc, err>>

\* lines 106-112 of one iteration, after the source was fetched
finish_iteration(dataset, globals, rows) ==
  IF annotate_fails(dataset, rows)
  THEN Raise("DerivationError") /\ UNCHANGED <<hts, i>>
  ELSE /\ hts' = Append(hts, annotated_table(dataset, globals, rows))
       /\ i' = i + 1
       /\ UNCHANGED <<pc, err>>

\* load_hts, one iteration, input_type 'ht'
load_ht ==
  /\ AtDataset("ht")
  /\ reads' = reads \cup {CONFIG[datasets[i]].path}
  /\ \E ok \in BOOLEAN, g \in SourceGlobals, rows \in SmallSubsets(HtRows) :
       IF ok THEN ht' = rows /\ finish_iteration(datasets[i], g, rows)
       ELSE Raise("SourceError") /\ UNCHANGED <<hts, i, ht>>
  /\ UNCHANGED <<argv, args, datasets, data, joined_ht, tmpfiles, output, nwrites, logged>>

\* load_hts, one iteration, input_type 'tsv'
load_tsv ==
  /\ AtDataset("tsv")
  /\ reads' = reads \cup {CONFIG[datasets[i]].path}
  /\ \E ok \in BOOLEAN, rows \in SmallSubsets(TsvRows) :
       IF ok THEN ht' = rows /\ finish_iteration(datasets[i], EmptyGlobals, rows)
       ELSE Raise("SourceError") /\ UNCHANGED <<hts, i, ht>>
  /\ UNCHANGED <<argv, args, datasets, data, joined_ht, tmpfiles, output, nwrites, logged>>

\* load_hts, one iteration, input_type 'vcf'
load_vcf ==
  /\ AtDataset("vcf")
  /\ reads' = reads \cup {CONFIG[datasets[i]].path}
  /\ \E ok \in BOOLEAN, rows \in SmallSubsets(VcfRows) :
       IF ok THEN ht' = import_vcf(rows) /\ finish_iteration(datasets[i], EmptyGlobals, ht')
       ELSE Raise("SourceError") /\ UNCHANGED <<hts, i, ht>>
  /\ UNCHANGED <<argv, args, datasets, data, joined_ht, tmpfiles, output, nwrites, logged>>

\* load_hts, one iteration, input_type 'json'.  open/json.load may raise.
\* Otherwise tempfile.mkstemp creates the file and returns (fd, path); the
\* with statement then raises, a tuple being no context manager, so the
\* body of the with (header from data[0], the writes) and the import and
\* os.remove after it never run.
load_json ==
  /\ AtDataset("json")
  /\ reads' = reads \cup {CONFIG[datasets[i]].path}
  /\ \E ok \in BOOLEAN, parsed \in JsonArrays :
       IF ok
       THEN /\ data' = parsed
            /\ tmpfiles' = tmpfiles \cup {Cardinality(tmpfiles) + 1}
            /\ Raise("ContextManagerError")
       ELSE /\ Raise("SourceError")
            /\ UNCHANGED <<data, tmpfiles>>
  /\ UNCHANGED <<argv, args, datasets, i, hts, ht, joined_ht, output, nwrites, logged>>

\* load_hts has returned: the loop ran over every requested name
AtReduce == pc = "load" /\ i > Len(datasets)

\* join_hts after load_hts: reduce, then select_globals.  load_hts has
\* returned, so its local ht is gone.
join_hts ==
  /\ AtReduce
  /\ ht' = {}
  /\ IF hts = <<>>
     THEN Raise("ReduceOfEmptySequence") /\ UNCHANGED joined_ht
     ELSE \E ok \in BOOLEAN, now \in 1..MaxTime :
            IF ok
            THEN /\ joined_ht' = select_globals(reduce(hts), now, included_dataset(datasets))
                 /\ pc' = "write"
                 /\ err' = err
            ELSE Raise("JoinError") /\ UNCHANGED joined_ht
  /\ UNCHANGED <<argv, args, datasets, i, hts, data, reads, tmpfiles, output, nwrites, logged>>

\* run: joined_ht.write(args.output_path, overwrite=args.force_write)
run_write ==
  /\ pc = "write"
  /\ IF write_refused(output.exists, args.force_write)
     THEN Raise("OutputExistsError") /\ UNCHANGED <<output, nwrites>>
     ELSE /\ output' = [exists |-> TRUE, table |-> joined_ht]
          /\ nwrites' = nwrites + 1
          /\ pc' = "done"
          /\ err' = err
  /\ UNCHANGED <<argv, args, datasets, i, hts, ht, data, joined_ht, reads, tmpfiles, logged>>

Next ==
  \/ main
  \/ run_init
  \/ run_validate
  \/ load_ht
  \/ load_tsv
  \/ load_vcf
  \/ load_json
  \/ join_hts
  \/ run_write

Spec == Init /\ [][Next]_vars

\* ------------------------------------------------- the join on its own
\* The run of a valid request of three datasets (two delimited text files
\* and the VCF), in any order, from the point where validation has passed.
JoinNames == {"mitomap", "mitimpact", "clinvar"}

Orders(S) == {q \in [1..Cardinality(S) -> S] : Range(q) = S}

RECURSIVE Commas(_)
Commas(names) ==
  IF Len(names) <= 1 THEN names
  ELSE <<Head(names), ",">> \o Commas(Tail(names))

JoinInit ==
  /\ \E names \in Orders(JoinNames) :
       /\ argv = [dataset |-> Commas(names), flags |-> {}]
       /\ datasets = split(Commas(names))
  /\ args = [dataset |-> argv.dataset, output_path |-> OutputPath,
             force_write |-> store_true(argv.flags, "--force-write")]
  /\ pc = "load"
  /\ i = 1
  /\ hts = <<>>
  /\ ht = {}
  /\ data = <<>>
  /\ joined_ht = NoTable
  /\ reads = {}
  /\ tmpfiles = {}
  /\ output = [exists |-> FALSE, table |-> NoTable]
  /\ nwrites = 0
  /\ err = "none"
  /\ logged = <<>>

JoinNext ==
  \/ load_tsv
  \/ load_vcf
  \/ join_hts
  \/ run_write

JoinSpec == JoinInit /\ [][JoinNext]_vars

\* --------------------------------------------------------------- claims
Supported(d) == d \in DOMAIN CONFIG
\* run has got past the validation of the names (line 134)
Validated ==
  \/ pc \in {"returned", "load", "write", "done"}
  \/ pc = "error" /\ err # "InitError"
Positions_of(t) == {r.locus.position : r \in t.rows}

\* C1: when a requested name is not a key of CONFIG, run reports the
\* invalid names and returns without having read any source path, loaded any
\* table or written to the output path, also when other names are valid.
C1_InvalidNameAbortsWithoutIO ==
  (Validated /\ \E k \in 1..Len(datasets) : ~Supported(datasets[k]))
    => /\ pc = "returned"
       /\ logged # <<>>
       /\ Range(logged) = {d \in Range(datasets) : ~Supported(d)}
       /\ reads = {}
       /\ hts = <<>>
       /\ tmpfiles = {}
       /\ nwrites = 0
       /\ joined_ht = NoTable

C1_Witness ==
  /\ pc = "returned"
  /\ Len(datasets) = 2
  /\ Supported(datasets[1])
  /\ logged = <<"bogus">>
  /\ reads = {}

\* C2: at the write step with an artifact at the output path, the write
\* fails and leaves the artifact as it is unless force_write is set, and
\* replaces it by the joined table when it is set; force_write is false
\* unless the flag is on the command line.
C2_WriteRespectsForceFlag ==
  /\ [][(pc = "write" /\ output.exists) =>
          IF args.force_write
          THEN pc' = "done" /\ output' = [exists |-> TRUE, table |-> joined_ht]
          ELSE pc' = "error" /\ err' = "OutputExistsError" /\ output' = output]_vars
  /\ []((pc # "main" /\ "--force-write" \notin argv.flags) => ~args.force_write)

C2_Witness ==
  /\ pc = "error"
  /\ err = "OutputExistsError"
  /\ argv.flags = {}
  /\ output = [exists |-> TRUE, table |-> OldTable]

\* C3: the artifact is written at most once, and only when every requested
\* dataset has been loaded in the requested order and the join has been
\* made; a run that failed has written nothing and takes no further step.
C3_WriteOnceAfterAllLoaded ==
  /\ nwrites <= 1
  /\ nwrites = 1 =>
       /\ pc = "done"
       /\ Len(hts) = Len(datasets)
       /\ \A k \in 1..Len(datasets) : hts[k].fields = <<datasets[k]>>
       /\ Len(joined_ht.fields) = Len(datasets)
       /\ DOMAIN joined_ht.globals = {"date", "datasets"}
       /\ output = [exists |-> TRUE, table |-> joined_ht]
  /\ pc = "error" =>
       /\ nwrites = 0
       /\ output.table \in {NoTable, OldTable}
       /\ ~ENABLED Next

C3_Witness ==
  /\ pc = "error"
  /\ err = "DerivationError"
  /\ Len(datasets) = 2
  /\ Len(hts) = 1
  /\ nwrites = 0

\* C4: the joined table's key set is the union of the key sets of the
\* loaded tables, and in every row of it the nested field of a dataset
\* holds that dataset's value when the dataset has the key and is null
\* when it does not.
C4_OuterJoinCompleteness ==
  pc = "write" =>
    /\ Keys(joined_ht) = UNION {Keys(hts[k]) : k \in 1..Len(hts)}
    /\ \A r \in joined_ht.rows :
         /\ Len(r.vals) = Len(hts)
         /\ \A k \in 1..Len(hts) :
              IF Key(r) \in Keys(hts[k])
              THEN \E q \in hts[k].rows : Key(q) = Key(r) /\ r.vals[k] = q.vals[1]
              ELSE r.vals[k] = NULL

C4_Witness ==
  /\ pc = "write"
  /\ Len(hts) = 3
  /\ Positions_of(hts[1]) = {1, 2}
  /\ Positions_of(hts[2]) = {2, 3}
  /\ hts[3].rows = {}
  /\ Positions_of(joined_ht) = {1, 2, 3}
  /\ \E r \in joined_ht.rows : r.locus.position = 1 /\ r.vals = <<Value, NULL, NULL>>
  /\ \E r \in joined_ht.rows : r.locus.position = 2 /\ r.vals = <<Value, Value, NULL>>
  /\ \E r \in joined_ht.rows : r.locus.position = 3 /\ r.vals = <<NULL, Value, NULL>>

\* C5: the globals of the table join_hts returns are exactly a date and a
\* datasets map from each requested name to its CONFIG path; no other
\* dataset and no global of an input table is in them.
C5_GlobalsAreRunMetadata ==
  pc \in {"write", "done"} =>
    /\ DOMAIN joined_ht.globals = {"date", "datasets"}
    /\ joined_ht.globals.date \in 1..MaxTime
    /\ DOMAIN joined_ht.globals.datasets = Range(datasets)
    /\ \A d \in Range(datasets) : joined_ht.globals.datasets[d] = CONFIG[d].path

C5_Witness ==
  /\ pc = "write"
  /\ Len(hts) = 2
  /\ \E k \in 1..2 : hts[k].globals # EmptyGlobals
  /\ DOMAIN joined_ht.globals.datasets = Range(datasets)

Terminated == pc \in {"returned", "error", "done"}

\* C6: no run ends with a temporary file of the json conversion left.
C6_TempFileDeleted == Terminated => tmpfiles = {}

\* C7: a json source that parses to an empty array makes load_hts fail
\* with an empty-input error.
C7_EmptyJsonDefinedError ==
  (/\ pc = "error"
   /\ i <= Len(datasets)
   /\ CONFIG[datasets[i]].input_type = "json"
   /\ err # "SourceError"
   /\ data = <<>>) => err = "EmptyInputError"

\* C8: every row of every loaded table is on chrM, the table of the last
\* iteration holds exactly the fetched rows whose locus (derived, where the
\* descriptor derives one) is on chrM, and every joined row is on chrM.
C8_OnlyMitochondrialRows ==
  /\ \A k \in 1..Len(hts) : \A r \in hts[k].rows : r.locus.contig = "chrM"
  /\ \A r \in joined_ht.rows : r.locus.contig = "chrM"
  /\ (pc = "load" /\ i > 1) =>
       IF "locus" \in CONFIG[datasets[i - 1]].annotate
       THEN Keys(hts[i - 1]) =
              {<<[contig |-> "chrM", position |-> r.start], r.alleles>> : r \in ht}
       ELSE Keys(hts[i - 1]) = {Key(r) : r \in {q \in ht : q.locus.contig = "chrM"}}

C8_Witness ==
  /\ pc = "load"
  /\ i = 2
  /\ CONFIG[datasets[1]].input_type = "vcf"
  /\ \E r \in ht : r.locus.contig = "chr1"
  /\ \E r \in ht : r.locus.contig = "chrM"
  /\ Cardinality(hts[1].rows) = 1

\* rows of a joined table by dataset name, whatever the layout order
ByName(t) ==
  {[key |-> Key(r),
    vals |-> [n \in Range(t.fields) |->
                r.vals[CHOOSE j \in 1..Len(t.fields) : t.fields[j] = n]]] : r \in t.rows}

\* C9: for distinct dataset names, folding the loaded tables in any other
\* order gives the same rows: the same keys with the same nested value per
\* dataset name.
C9_FoldOrderIrrelevant ==
  (pc = "write" /\ Cardinality(Range(datasets)) = Len(datasets)) =>
    \A p \in Orders(1..Len(hts)) :
      ByName(reduce([k \in 1..Len(hts) |-> hts[p[k]]])) = ByName(joined_ht)

C9_Witness ==
  /\ pc = "write"
  /\ Len(hts) = 3
  /\ Positions_of(hts[1]) = {1}
  /\ Positions_of(hts[2]) = {1, 2}
  /\ Positions_of(hts[3]) = {2, 3}
  /\ Cardinality(joined_ht.rows) = 3

\* C10: whatever the argument, the fold starts with a non-empty list: at
\* the reduce there is one table per requested name, in order, and at least
\* one; a request with an empty segment never gets there.
C10_ReduceNeverOnEmptyList ==
  /\ Validated => Len(datasets) >= 1
  /\ AtReduce =>
       /\ Len(hts) >= 1
       /\ Len(hts) = Len(datasets)
       /\ \A k \in 1..Len(hts) : hts[k].fields = <<datasets[k]>>
  /\ (Validated /\ "" \in Range(datasets)) => pc = "returned" /\ hts = <<>>

C10_Witness ==
  /\ AtReduce
  /\ Len(hts) = 2
  /\ hts[1].fields = <<datasets[1]>>
  /\ hts[2].fields = <<datasets[2]>>

====
